---- MODULE Spec2Model ----
(***************************************************************************)
(* The report catalog router of app/routers/report.py: the CRUD handlers   *)
(* over the Report and ReportImage tables, the paginated listings and the  *)
(* image upload handler.                                                   *)
(*                                                                         *)
(* Text that the code computes on (image names, creation dates, file       *)
(* names) is a sequence of one-character strings; text that is only        *)
(* stored and returned is a TLA+ string.                                   *)
(*                                                                         *)
(* A step is what a handler does up to its next db.commit(): update,       *)
(* delete and the reads are one step each, create is one step per row it   *)
(* commits, and other requests may be served between two of its commits.   *)
(* One create request is in flight at a time.                              *)
(***************************************************************************)
EXTENDS Integers, Sequences, FiniteSets, TLC

VARIABLES
    reports,      \* the Report table: a set of rows
    images,       \* the ReportImage table: a set of rows
    report_seq,   \* the next id the store assigns to a Report row
    image_seq,    \* the next id the store assigns to a ReportImage row
    cascade,      \* whether the schema cascades a report's delete to its images
    creating,     \* the create_report request in flight (or the last one finished)
    written,      \* history: per assigned report id, the last successful write
    req,          \* the last request handled (operation and arguments)
    resp,         \* the response to it
    upl           \* the upload request and the file system it writes to

vars == <<reports, images, report_seq, image_seq, cascade, creating, written,
          req, resp, upl>>

store == <<reports, images, report_seq, image_seq, cascade, creating, written>>

-----------------------------------------------------------------------------
(* Bounds of the model.                                                    *)

MaxReports == 2     \* create requests in one behaviour
MaxImages == 2      \* image specs in one create request
MaxPage == 2        \* largest page argument
MaxPerPage == 2     \* largest per_page argument
MaxUploads == 2     \* upload requests in one behaviour

-----------------------------------------------------------------------------
(* Python values.                                                          *)

None == [none |-> TRUE]

\* A str argument that may be None is boxed, so that it can be compared with None.
Str(s) == [str |-> s]

Digits == <<"0", "1", "2", "3", "4", "5", "6", "7", "8", "9">>

DigitValue(c) ==
    CASE c = "0" -> 0 [] c = "1" -> 1 [] c = "2" -> 2 [] c = "3" -> 3 [] c = "4" -> 4
      [] c = "5" -> 5 [] c = "6" -> 6 [] c = "7" -> 7 [] c = "8" -> 8 [] c = "9" -> 9

\* str(n) for n >= 0: the decimal digits of n.
RECURSIVE str(_)
str(n) == IF n < 10 THEN <<Digits[n + 1]>>
          ELSE str(n \div 10) \o <<Digits[(n % 10) + 1]>>

StartsWith(s, prefix) ==
    /\ Len(s) >= Len(prefix)
    /\ SubSeq(s, 1, Len(prefix)) = prefix

\* s.replace(old, new), old not empty: the non-overlapping occurrences of old,
\* found left to right, are each replaced.
RECURSIVE replace(_, _, _)
replace(s, old, new) ==
    IF s = <<>> THEN <<>>
    ELSE IF StartsWith(s, old)
         THEN new \o replace(SubSeq(s, Len(old) + 1, Len(s)), old, new)
         ELSE <<Head(s)>> \o replace(Tail(s), old, new)

\* s.split(sep)[-1] for a one-character sep: what follows the last sep, or all
\* of s when it holds none.
RECURSIVE LastSegment(_, _)
LastSegment(s, sep) ==
    IF \A i \in 1..Len(s) : s[i] # sep THEN s
    ELSE LastSegment(Tail(s), sep)

Placeholder == <<"X", "X", "X">>

-----------------------------------------------------------------------------
(* Request schemas and rows.                                               *)

ReportFields ==
    {"title", "url", "category", "description", "summary", "toc", "highlights",
     "methodology", "meta_title", "meta_desc", "meta_keyword", "pages",
     "cover_img", "created_date", "faqs"}

UpdateFields == ReportFields \cup {"id"}

\* Creation dates as the clients send them: text. Each is text the store can
\* cast to a date and time; two of them write the same instant.
Date_2024_01_05 == <<"2", "0", "2", "4", "-", "0", "1", "-", "0", "5">>
Date_2023_12_31 == <<"2", "0", "2", "3", "-", "1", "2", "-", "3", "1">>
Date_2024_01_05_midnight ==
    Date_2024_01_05 \o <<" ", "0", "0", ":", "0", "0", ":", "0", "0">>

AlphaReport ==
    [title |-> "Alpha Market Report", url |-> "alpha-market", category |-> "energy",
     description |-> "alpha description", summary |-> "alpha summary",
     toc |-> "alpha toc", highlights |-> "alpha highlights",
     methodology |-> "alpha methodology", meta_title |-> "alpha meta title",
     meta_desc |-> "alpha meta desc", meta_keyword |-> "alpha, market",
     pages |-> "120", cover_img |-> "alpha.png",
     created_date |-> Date_2024_01_05, faqs |-> "alpha faqs"]

BetaReport ==
    [title |-> "Beta Outlook", url |-> "beta-outlook", category |-> "",
     description |-> "beta description", summary |-> "beta summary",
     toc |-> "beta toc", highlights |-> "beta highlights",
     methodology |-> "beta methodology", meta_title |-> "beta meta title",
     meta_desc |-> "beta meta desc", meta_keyword |-> "beta, outlook",
     pages |-> "80", cover_img |-> "beta.png",
     created_date |-> Date_2023_12_31, faqs |-> "beta faqs"]

GammaReport ==
    [title |-> "Gamma Review", url |-> "gamma-review", category |-> "energy",
     description |-> "gamma description", summary |-> "gamma summary",
     toc |-> "gamma toc", highlights |-> "gamma highlights",
     methodology |-> "gamma methodology", meta_title |-> "gamma meta title",
     meta_desc |-> "gamma meta desc", meta_keyword |-> "gamma, review",
     pages |-> "45", cover_img |-> "gamma.png",
     created_date |-> Date_2024_01_05_midnight, faqs |-> "gamma faqs"]

\* CreateReportRequest values the clients submit.
CreateReportRequest == {AlphaReport, BetaReport, GammaReport}

\* UpdateReportRequest: the fields of CreateReportRequest and an id.
WithId(body, id) ==
    [f \in UpdateFields |-> IF f = "id" THEN id ELSE body[f]]

\* The report fields of a row or of an update request.
Body(row) == [f \in ReportFields |-> row[f]]

Ids(rows) == {r.id : r \in rows}

\* .first() of the whole table when no row has the id.
firstOfAny(rows, id) ==
    IF \E r \in rows : r.id = id THEN CHOOSE r \in rows : r.id = id
    ELSE IF rows # {} THEN CHOOSE r \in rows : TRUE ELSE None

\* query.filter(Model.id == id).first()
first(rows, id) ==
    IF \E r \in rows : r.id = id THEN CHOOSE r \in rows : r.id = id ELSE None

-----------------------------------------------------------------------------
(* The store's cast of the creation date text to a date and time.          *)

\* The number that the digits s[from..to] write.
RECURSIVE Number(_, _, _)
Number(s, from, to) ==
    IF to < from THEN 0
    ELSE 10 * Number(s, from, to - 1) + DigitValue(s[to])

\* func.cast(Report.created_date, DateTime): year, month, day, hour, minute,
\* second; a date without a time of day is midnight.
CastDateTime(s) ==
    <<Number(s, 1, 4), Number(s, 6, 7), Number(s, 9, 10),
      IF Len(s) = 19 THEN Number(s, 12, 13) ELSE 0,
      IF Len(s) = 19 THEN Number(s, 15, 16) ELSE 0,
      IF Len(s) = 19 THEN Number(s, 18, 19) ELSE 0>>

\* a is an earlier date and time than b.
Earlier(a, b) ==
    \E i \in 1..6 : /\ a[i] < b[i]
                    /\ \A j \in 1..(i - 1) : a[j] = b[j]

-----------------------------------------------------------------------------
(* Queries.                                                                *)

\* The sequences of the rows of keyed, a set of <<key, row>>, latest key
\* first; rows of equal key come in any order.
RECURSIVE Descending(_)
Descending(keyed) ==
    IF keyed = {} THEN {<<>>}
    ELSE UNION {{<<p[2]>> \o rest : rest \in Descending(keyed \ {p})} :
                    p \in {x \in keyed : \A o \in keyed : ~Earlier(x[1], o[1])}}

\* .order_by(func.cast(Report.created_date, DateTime).desc()): the store may
\* return rows of equal date in any order.
OrderByCreatedDateDesc(rows) ==
    Descending({<<CastDateTime(r.created_date), r>> : r \in rows})

\* The offset of the page after.
OffsetOfNextPage(page, per_page) == page * per_page

\* Line 131
Offset(page, per_page) == (page - 1) * per_page

Min(a, b) == IF a < b THEN a ELSE b

\* .offset(offset).limit(limit) of an ordered result, offset and limit >= 0.
OffsetLimit(s, offset, limit) ==
    SubSeq(s, offset + 1, Min(offset + limit, Len(s)))

LatestReportListSchema(row) ==
    [f \in {"id", "url", "title", "category", "summary", "pages", "cover_img",
            "created_date"} |-> row[f]]

CategoryReportListSchema(row) ==
    [f \in {"id", "url", "title", "category", "summary", "pages",
            "created_date"} |-> row[f]]

MatchCategory(rows, category) == {r \in rows : r.category = category}

-----------------------------------------------------------------------------
(* Responses.                                                              *)

\* No response yet: the handler is still running.
Pending == [status |-> 0]

Ok(data) == [status |-> 200, data |-> data]

Message(message) == [status |-> 200, message |-> message]

\* raise HTTPException(status_code=404, detail=...)
NotFound(detail) == [status |-> 404, detail |-> detail]

\* An exception the handler does not catch: the framework answers 500.
ServerError == [status |-> 500]

-----------------------------------------------------------------------------
(* The state before the first request.                                     *)

Idle == [pc |-> "idle", id |-> 0, images |-> <<>>, k |-> 0, rows |-> <<>>]

NoUpload ==
    [pc |-> "idle", file |-> None, closes |-> 0, timestamp |-> 0,
     file_extension |-> <<>>, file_path |-> None, image |-> None,
     saved |-> FALSE, failed |-> FALSE, clock |-> 0, uploads |-> 0, disk |-> {}]

InitStore(first_ids) ==
    /\ reports = {}
    /\ images = {}
    /\ report_seq \in first_ids
    /\ image_seq = 1
    /\ cascade \in BOOLEAN
    /\ creating = Idle
    /\ written = <<>>
    /\ req = [op |-> "none"]
    /\ resp = Pending

\* The ids a client may name: each id assigned so far and one never assigned.
IdArgs == (DOMAIN written) \cup {report_seq}

-----------------------------------------------------------------------------
(* POST /  (create_report)                                                 *)

\* db.add(row); db.commit()
Insert(rows, row) == rows \cup {row}

\* The row with the title written to the url column too.
ReportTitleAsUrl(report, id) ==
    [f \in UpdateFields |-> IF f = "id" THEN id
                            ELSE IF f = "url" THEN report.title ELSE report[f]]

\* Lines 273-276: Report(**report.report.dict()), with the id the store gave it.
Report(report, id) == WithId(report, id)

\* The id the store assigns after id: ids grow, none is assigned twice.
NextId(id) == id + 1

CreateRequest(imgs) == [op |-> "create_report", images |-> imgs]

\* Lines 273-276: the report row is inserted and committed, and the store's id
\* read back. With no image specs the handler returns at once.
create_report(report, imgs) ==
    /\ creating.pc # "images"
    /\ Cardinality(DOMAIN written) < MaxReports
    /\ LET db_report == Report(report, report_seq)
       IN /\ reports' = Insert(reports, db_report)
          /\ report_seq' = NextId(report_seq)
          /\ written' = written @@ (db_report.id :> [by |-> "create", body |-> report])
          /\ creating' = [pc |-> IF imgs = <<>> THEN "done" ELSE "images",
                          id |-> db_report.id, images |-> imgs, k |-> 0,
                          rows |-> <<>>]
    /\ req' = CreateRequest(imgs)
    /\ resp' = IF imgs = <<>> THEN Ok("Report Added Successfully") ELSE Pending
    /\ UNCHANGED <<images, image_seq, cascade, upl>>

\* The first occurrence of old in s alone is replaced.
RECURSIVE replaceFirst(_, _, _)
replaceFirst(s, old, new) ==
    IF s = <<>> THEN <<>>
    ELSE IF StartsWith(s, old)
         THEN new \o SubSeq(s, Len(old) + 1, Len(s))
         ELSE <<Head(s)>> \o replaceFirst(Tail(s), old, new)

ImageNameFirstOnly(image, report_id) ==
    replaceFirst(image.img_name, Placeholder, str(report_id))

\* Line 279: the image name with the placeholder replaced by the report's id.
ImageName(image, report_id) == replace(image.img_name, Placeholder, str(report_id))

\* Lines 278-283, one iteration: the next image row is inserted and committed
\* on its own; after the last one the handler returns (line 285). report_id
\* records the report the row was created with, for the cascade of a delete.
create_report_image ==
    /\ creating.pc = "images"
    /\ LET k == creating.k + 1
           image == creating.images[k]
           new_image == [id |-> image_seq,
                         img_name |-> ImageName(image, creating.id),
                         report_id |-> creating.id]
           last == k = Len(creating.images)
       IN /\ images' = Insert(images, new_image)
          /\ image_seq' = NextId(image_seq)
          /\ creating' = [creating EXCEPT !.k = k,
                                          !.rows = Append(@, new_image.id),
                                          !.pc = IF last THEN "done" ELSE "images"]
          /\ resp' = IF last THEN Ok("Report Added Successfully") ELSE Pending
    /\ req' = CreateRequest(creating.images)
    /\ UNCHANGED <<reports, report_seq, cascade, written, upl>>

\* The failure undoes what the request had committed.
create_report_image_rolls_back ==
    /\ creating.pc = "images"
    /\ creating' = [creating EXCEPT !.pc = "failed"]
    /\ reports' = {r \in reports : r.id # creating.id}
    /\ images' = {im \in images : im.report_id # creating.id}
    /\ req' = CreateRequest(creating.images)
    /\ resp' = ServerError
    /\ UNCHANGED <<report_seq, image_seq, cascade, written, upl>>

\* The commit of an image row raises: the handler ends there, and what was
\* committed before stays (there is no rollback of an earlier commit).
create_report_image_fails ==
    /\ creating.pc = "images"
    /\ creating' = [creating EXCEPT !.pc = "failed"]
    /\ req' = CreateRequest(creating.images)
    /\ resp' = ServerError
    /\ UNCHANGED <<reports, images, report_seq, image_seq, cascade, written, upl>>

-----------------------------------------------------------------------------
(* PUT /{report_id}  (update_report)                                       *)

\* Every attribute but the summary is set.
SetAttrsButSummary(row, values) ==
    [f \in DOMAIN row |-> IF f \in (DOMAIN values) \ {"summary"} THEN values[f]
                          ELSE row[f]]

\* Lines 308-309: for attr, value in new_report.dict().items(): setattr(...)
SetAttrs(row, values) ==
    [f \in DOMAIN row |-> IF f \in DOMAIN values THEN values[f] ELSE row[f]]

\* Line 304: the row the handler loads. The path's report_id is not a
\* parameter of the handler: the row is looked up by the id of the body.
ExistingReport(rows, report_id, new_report) == first(rows, new_report.id)

\* Lines 308-312 on the rows: the loaded row takes the body's values.
Update(rows, existing_report, new_report) ==
    (rows \ {existing_report}) \cup {SetAttrs(existing_report, new_report)}

update_report(report_id, new_report) ==
    LET existing_report == ExistingReport(reports, report_id, new_report)
    IN /\ req' = [op |-> "update_report", report_id |-> report_id,
                  new_report |-> new_report]
       /\ IF existing_report = None
          THEN /\ resp' = NotFound("Report not found")
               /\ UNCHANGED <<store, upl>>
          ELSE /\ reports' = Update(reports, existing_report, new_report)
               /\ resp' = Ok(SetAttrs(existing_report, new_report))
               /\ written' = [written EXCEPT ![existing_report.id] =
                                 [by |-> "update", body |-> Body(new_report)]]
               /\ UNCHANGED <<images, report_seq, image_seq, cascade, creating, upl>>

-----------------------------------------------------------------------------
(* DELETE /{report_id}  (delete_report)                                    *)

\* The delete is not committed.
DeleteUncommitted(rows, row) == rows

\* db.delete(row); db.commit()
Delete(rows, row) == rows \ {row}

\* The images that go with a deleted report when the schema cascades.
CascadeDelete(rows, report_id) ==
    IF cascade THEN {im \in rows : im.report_id # report_id} ELSE rows

delete_report(report_id) ==
    LET report == first(reports, report_id)
    IN /\ req' = [op |-> "delete_report", report_id |-> report_id]
       /\ IF report = None
          THEN /\ resp' = NotFound("Report not found")
               /\ UNCHANGED <<store, upl>>
          ELSE /\ reports' = Delete(reports, report)
               /\ images' = CascadeDelete(images, report.id)
               /\ resp' = Message("Report deleted")
               /\ written' = [written EXCEPT ![report.id] = [by |-> "delete"]]
               /\ UNCHANGED <<report_seq, image_seq, cascade, creating, upl>>

-----------------------------------------------------------------------------
(* GET /{report_id}  (get_report_by_id)                                    *)

get_report_by_id(report_id) ==
    /\ req' = [op |-> "get_report_by_id", report_id |-> report_id]
    /\ resp' = Ok(first(reports, report_id))
    /\ UNCHANGED <<store, upl>>

-----------------------------------------------------------------------------
(* GET /latest and GET /category/{category}                                *)

\* The page of an ordered result. A negative offset is the store's to
\* refuse or to read as zero.
Refusals(offset) == IF offset < 0 THEN BOOLEAN ELSE {FALSE}

Page(ordered, offset, limit, refused) ==
    IF offset < 0 /\ refused
    THEN ServerError
    ELSE Ok(OffsetLimit(ordered, IF offset < 0 THEN 0 ELSE offset, limit))

\* Lines 152-167 and 252-266: the response lists the schema record of each row.
LatestReportList(page) ==
    IF page.status # 200 THEN page
    ELSE Ok([i \in 1..Len(page.data) |-> LatestReportListSchema(page.data[i])])

CategoryReportList(page) ==
    IF page.status # 200 THEN page
    ELSE Ok([i \in 1..Len(page.data) |-> CategoryReportListSchema(page.data[i])])

get_latest_reports(page, per_page) ==
    /\ req' = [op |-> "get_latest_reports", page |-> page, per_page |-> per_page]
    /\ \E ordered \in OrderByCreatedDateDesc(reports),
          refused \in Refusals(Offset(page, per_page)) :
           resp' = LatestReportList(Page(ordered, Offset(page, per_page), per_page,
                                         refused))
    /\ UNCHANGED <<store, upl>>

\* Line 227: the check that raises "Category not found".
CategoryMissing(category) == category = None

get_reports_by_category(category, page, per_page) ==
    /\ req' = [op |-> "get_reports_by_category", category |-> category,
               page |-> page, per_page |-> per_page]
    /\ IF CategoryMissing(category)
       THEN resp' = NotFound("Category not found")
       ELSE \E ordered \in OrderByCreatedDateDesc(MatchCategory(reports, category.str)),
               refused \in Refusals(Offset(page, per_page)) :
                resp' = CategoryReportList(Page(ordered, Offset(page, per_page),
                                                per_page, refused))
    /\ UNCHANGED <<store, upl>>

CategoryArgs == {None} \cup {Str(c) : c \in {"", "energy"}}

UpdateReportRequest(bodies) ==
    {WithId(body, id) : body \in bodies, id \in IdArgs}

\* Image lists of a create request: the first n of the sample names, taken
\* round.
SampleNames ==
    << <<"r", "X", "X", "X", "-", "1">>,
       <<"X", "X", "X", "_", "X", "X", "X", "X">>,
       <<"l", "o", "g", "o">> >>

SampleImage(i) == [img_name |-> SampleNames[((i - 1) % Len(SampleNames)) + 1]]

SampleImageLists(max) == {[i \in 1..n |-> SampleImage(i)] : n \in 0..max}

-----------------------------------------------------------------------------
(* Spec: create, update, delete and get by id; create requests have at     *)
(* most one image.                                                         *)

Init ==
    /\ InitStore({1})
    /\ upl = NoUpload

Next ==
    \/ \E report \in {AlphaReport, BetaReport}, imgs \in SampleImageLists(1) :
           create_report(report, imgs)
    \/ create_report_image
    \/ create_report_image_fails
    \/ \E report_id \in IdArgs, new_report \in UpdateReportRequest({BetaReport}) :
           update_report(report_id, new_report)
    \/ \E report_id \in IdArgs : delete_report(report_id)
    \/ \E report_id \in IdArgs : get_report_by_id(report_id)

Spec == Init /\ [][Next]_vars

-----------------------------------------------------------------------------
(* ListSpec: the listings over the tables that create and delete build.    *)

NextList ==
    \/ \E report \in CreateReportRequest : create_report(report, <<>>)
    \/ \E report_id \in IdArgs : delete_report(report_id)
    \/ \E page \in 0..MaxPage, per_page \in 0..MaxPerPage :
           get_latest_reports(page, per_page)
    \/ \E category \in CategoryArgs, page \in 0..MaxPage, per_page \in 0..MaxPerPage :
           get_reports_by_category(category, page, per_page)

ListSpec == Init /\ [][NextList]_vars

-----------------------------------------------------------------------------
(* CreateSpec: create requests with up to MaxImages images, commit by      *)
(* commit, next to deletes and reads; the store may have assigned ids      *)
(* before.                                                                 *)

InitCreate ==
    /\ InitStore({9})
    /\ upl = NoUpload

NextCreate ==
    \/ \E imgs \in SampleImageLists(MaxImages) : create_report(AlphaReport, imgs)
    \/ create_report_image
    \/ create_report_image_fails
    \/ \E report_id \in IdArgs : delete_report(report_id)
    \/ \E report_id \in IdArgs : get_report_by_id(report_id)

CreateSpec == InitCreate /\ [][NextCreate]_vars

-----------------------------------------------------------------------------
(* POST /upload  (upload)                                                  *)

max_width == 800

\* Image.thumbnail((max, max)) on an image of the given size: the size is
\* kept when it fits; otherwise the longer side becomes max and the other
\* side the nearer of the two whole numbers around its exact value, at least 1.
Nearer(low, high, distance_low, distance_high) ==
    LET n == IF distance_low <= distance_high THEN low ELSE high
    IN IF n < 1 THEN 1 ELSE n

Abs(n) == IF n < 0 THEN -n ELSE n

Ceil(a, b) == IF a % b = 0 THEN a \div b ELSE (a \div b) + 1

Thumbnail(size, max) ==
    LET w == size.width
        h == size.height
    IN IF max >= w /\ max >= h THEN size
       ELSE IF h >= w
            THEN LET f == (max * w) \div h
                     c == Ceil(max * w, h)
                 IN [width |-> Nearer(f, c, Abs(max * w - f * h),
                                      Abs(max * w - c * h)),
                     height |-> max]
            ELSE LET f == (max * h) \div w
                     c == Ceil(max * h, w)
                 IN [width |-> max,
                     height |-> Nearer(f, c,
                                       IF f = 0 THEN 0 ELSE Abs(w * f - max * h) * c,
                                       Abs(w * c - max * h) * f)]

\* The file names and contents a client uploads.
FileNames ==
    {None,
     Str(<<"a", ".", "p", "n", "g">>),
     Str(<<"a", ".", "b", ".", "j", "p", "g">>),
     Str(<<"r", "a", "w">>)}

\* "image": decodes; "truncated": the header decodes, the pixels do not;
\* "corrupt": not an image.
FileContents ==
    {[kind |-> "image", width |-> 1600, height |-> 1200],
     [kind |-> "image", width |-> 640, height |-> 480],
     [kind |-> "truncated", width |-> 1000, height |-> 3000],
     [kind |-> "corrupt", width |-> 0, height |-> 0]}

\* The extensions Image.save knows a format for.
KnownExtensions == {<<"p", "n", "g">>, <<"j", "p", "g">>}

UploadFailed == [text |-> "There was an error uploading the file"]

UploadSucceeded(filename, file_path) ==
    [text |-> "Successfully uploaded and compressed", filename |-> filename,
     file_path |-> file_path]

\* The request arrives; line 331: the time stamp, to the second.
upload(filename, contents) ==
    /\ upl.pc \in {"idle", "returned"}
    /\ upl.uploads < MaxUploads
    /\ \E now \in {upl.clock, upl.clock + 1} :
           upl' = [upl EXCEPT !.pc = "filename",
                              !.file = [filename |-> filename, contents |-> contents],
                              !.closes = 0, !.timestamp = now, !.clock = now,
                              !.file_extension = <<>>, !.file_path = None,
                              !.image = None, !.saved = FALSE, !.failed = FALSE,
                              !.uploads = @ + 1]
    /\ req' = [op |-> "upload"]
    /\ resp' = Pending
    /\ UNCHANGED store

\* The statement at pc raises: control passes to the except clause.
Raise == [upl EXCEPT !.pc = "except"]

\* Line 333: file.filename.split(".")[-1]; None has no split.
upload_filename ==
    /\ upl.pc = "filename"
    /\ upl' = IF upl.file.filename = None THEN Raise
              ELSE [upl EXCEPT !.pc = "makedirs",
                               !.file_extension =
                                   LastSegment(upl.file.filename.str, ".")]
    /\ UNCHANGED <<store, req, resp>>

\* Lines 335-338: the folder is made if it is not there; the path is built.
upload_makedirs ==
    /\ upl.pc = "makedirs"
    /\ \/ upl' = [upl EXCEPT !.pc = "read",
                             !.file_path = [folder |-> "images",
                                            timestamp |-> upl.timestamp,
                                            extension |-> upl.file_extension]]
       \/ upl' = Raise
    /\ UNCHANGED <<store, req, resp>>

\* Line 340: file.file.read()
upload_read ==
    /\ upl.pc = "read"
    /\ \/ upl' = [upl EXCEPT !.pc = "open"]
       \/ upl' = Raise
    /\ UNCHANGED <<store, req, resp>>

\* Line 342: Image.open raises on what is not an image.
upload_open ==
    /\ upl.pc = "open"
    /\ upl' = IF upl.file.contents.kind = "corrupt" THEN Raise
              ELSE [upl EXCEPT !.pc = "thumbnail",
                               !.image = [width |-> upl.file.contents.width,
                                          height |-> upl.file.contents.height]]
    /\ UNCHANGED <<store, req, resp>>

\* Lines 344-345: image.thumbnail((max_width, max_width)) decodes the pixels.
upload_thumbnail ==
    /\ upl.pc = "thumbnail"
    /\ upl' = IF upl.file.contents.kind = "truncated" THEN Raise
              ELSE [upl EXCEPT !.pc = "save",
                               !.image = Thumbnail(upl.image, max_width)]
    /\ UNCHANGED <<store, req, resp>>

\* Line 347: image.save(file_path) writes over a file of that path; it raises
\* on an extension it knows no format for, or when the write fails.
upload_save ==
    /\ upl.pc = "save"
    /\ \/ /\ upl.file_extension \in KnownExtensions
          /\ upl' = [upl EXCEPT !.pc = "finally", !.saved = TRUE,
                                !.disk = {f \in @ : f.path # upl.file_path}
                                         \cup {[path |-> upl.file_path,
                                                size |-> upl.image]}]
       \/ upl' = Raise
    /\ UNCHANGED <<store, req, resp>>

\* The except clause returns without the finally clause being run.
upload_except_returns ==
    /\ upl.pc = "except"
    /\ upl' = [upl EXCEPT !.pc = "return", !.failed = TRUE]
    /\ UNCHANGED <<store, req, resp>>

\* Lines 349-350: the except clause takes the generic message as the result.
upload_except ==
    /\ upl.pc = "except"
    /\ upl' = [upl EXCEPT !.pc = "finally", !.failed = TRUE]
    /\ UNCHANGED <<store, req, resp>>

\* Lines 351-352: file.file.close()
Close(closes) == closes + 1

upload_finally ==
    /\ upl.pc = "finally"
    /\ upl' = [upl EXCEPT !.pc = "return", !.closes = Close(@)]
    /\ UNCHANGED <<store, req, resp>>

\* The return of line 350, or of lines 354-356.
upload_return ==
    /\ upl.pc = "return"
    /\ upl' = [upl EXCEPT !.pc = "returned"]
    /\ resp' = Message(IF upl.failed THEN UploadFailed
                        ELSE UploadSucceeded(upl.file.filename, upl.file_path))
    /\ UNCHANGED <<store, req>>

NextUpload ==
    \/ \E filename \in FileNames, contents \in FileContents :
           upload(filename, contents)
    \/ upload_filename
    \/ upload_makedirs
    \/ upload_read
    \/ upload_open
    \/ upload_thumbnail
    \/ upload_save
    \/ upload_except
    \/ upload_finally
    \/ upload_return

UploadSpec == Init /\ [][NextUpload]_vars

-----------------------------------------------------------------------------
(* Properties of create, update, delete and get by id (Spec).              *)

\* The last successful write of report id, when the store has assigned id.
LastWrite(id) == IF id \in DOMAIN written THEN written[id].by ELSE "never"

\* C1: a get by id of a report that was created, and neither updated nor
\* deleted since, returns a record with the id and with every report field
\* equal to the value the create request submitted.
C1_GetAfterCreateReturnsSubmitted ==
    (req.op = "get_report_by_id" /\ LastWrite(req.report_id) = "create")
        => /\ resp.status = 200
           /\ resp.data # None
           /\ resp.data.id = req.report_id
           /\ \A f \in ReportFields :
                  resp.data[f] = written[req.report_id].body[f]

\* A report is read back as created while another report was updated or
\* deleted after it was created.
C1_Witness ==
    /\ req.op = "get_report_by_id"
    /\ LastWrite(req.report_id) = "create"
    /\ resp.data # None
    /\ \E other \in DOMAIN written :
           /\ other > req.report_id
           /\ LastWrite(other) \in {"update", "delete"}

\* C2: an update whose id names an existing report succeeds, and the record it
\* returns and the stored record hold every submitted value; a get by id
\* after it (no other write of that report between) returns the submitted
\* values; and the same update applied again leaves the table as it is.
C2_UpdateOverwritesEveryField ==
    /\ (req.op = "update_report" /\ req.new_report.id \in Ids(reports))
           => /\ resp.status = 200
              /\ \A f \in UpdateFields : resp.data[f] = req.new_report[f]
              /\ \A r \in reports :
                     r.id = req.new_report.id
                         => \A f \in UpdateFields : r[f] = req.new_report[f]
    /\ (req.op = "get_report_by_id" /\ LastWrite(req.report_id) = "update")
           => /\ resp.data # None
              /\ \A f \in ReportFields :
                     resp.data[f] = written[req.report_id].body[f]
    /\ \A new_report \in UpdateReportRequest({BetaReport}) :
           LET existing == ExistingReport(reports, new_report.id, new_report)
               once == Update(reports, existing, new_report)
           IN existing # None
                  => Update(once, ExistingReport(once, new_report.id, new_report),
                            new_report) = once

\* A get returns the updated values of a report that was created with other
\* values.
C2_Witness ==
    /\ req.op = "get_report_by_id"
    /\ LastWrite(req.report_id) = "update"
    /\ resp.data # None
    /\ resp.data.title = BetaReport.title
    /\ \E r \in reports : r.id # req.report_id /\ r.title = AlphaReport.title

\* C3: once a report is deleted, no row has its id in any later state (create
\* assigns new ids only), and every get by that id answers with status 200
\* and null data.
C3_DeletedStaysAbsent ==
    /\ \A id \in DOMAIN written :
           LastWrite(id) = "delete" => id \notin Ids(reports)
    /\ (req.op = "get_report_by_id" /\ LastWrite(req.report_id) = "delete")
           => resp = Ok(None)

\* A get of a deleted report after a later create.
C3_Witness ==
    /\ req.op = "get_report_by_id"
    /\ LastWrite(req.report_id) = "delete"
    /\ \E r \in reports : r.id > req.report_id

\* C4: an update whose id, or a delete whose report_id, names no existing
\* report answers 404 and leaves the report and image tables as they were.
C4_NotFoundLeavesStore ==
    [][/\ (req'.op = "update_report" /\ req'.new_report.id \notin Ids(reports))
           => (resp'.status = 404 /\ reports' = reports /\ images' = images)
       /\ (req'.op = "delete_report" /\ req'.report_id \notin Ids(reports))
           => (resp'.status = 404 /\ reports' = reports /\ images' = images)
      ]_vars

\* An update of a deleted report is refused while reports and images exist.
C4_Witness ==
    /\ req.op = "update_report"
    /\ resp.status = 404
    /\ LastWrite(req.new_report.id) = "delete"
    /\ reports # {}
    /\ images # {}

\* C9 as claimed: a successful PUT /{report_id} changes no report but the one
\* whose id is report_id, changes no image, and adds or removes no id.
C9_UpdateChangesOnlyThePathReport ==
    [][(req'.op = "update_report" /\ resp'.status = 200)
           => /\ \A r \in reports : r.id # req'.report_id => r \in reports'
              /\ \A r \in reports' : r.id # req'.report_id => r \in reports
              /\ Ids(reports') = Ids(reports)
              /\ images' = images
      ]_vars

-----------------------------------------------------------------------------
(* Properties of the listings (ListSpec).                                  *)

DateOf(row) == CastDateTime(row.created_date)

\* The reports of a later date than row, and those of none earlier.
LaterThan(row) == {r \in reports : Earlier(DateOf(row), DateOf(r))}
NotEarlierThan(row) == {r \in reports : ~Earlier(DateOf(r), DateOf(row))}

C6_EmptyCategoryIsNotFound ==
    (req.op = "get_reports_by_category" /\ req.category \in {None, Str("")})
        => resp.status = 404

-----------------------------------------------------------------------------
(* Properties of create, commit by commit (CreateSpec).                    *)

\* name is original with the placeholder occurrences, read left to right,
\* given as the digits id.
RECURSIVE Substituted(_, _, _)
Substituted(original, name, id) ==
    IF original = <<>> THEN name = <<>>
    ELSE IF StartsWith(original, Placeholder)
         THEN /\ StartsWith(name, id)
              /\ Substituted(SubSeq(original, Len(Placeholder) + 1, Len(original)),
                             SubSeq(name, Len(id) + 1, Len(name)), id)
         ELSE /\ name # <<>>
              /\ Head(name) = Head(original)
              /\ Substituted(Tail(original), Tail(name), id)

HoldsPlaceholder(name) ==
    \E i \in 1..Len(name) : StartsWith(SubSeq(name, i, Len(name)), Placeholder)

\* The image rows that the create request in flight, or the last one, inserted.
Mine == {im \in images : im.report_id = creating.id}

\* What a delete of the report may have taken.
Swept == LastWrite(creating.id) = "delete" /\ cascade

\* C7: when a create with n image specs has succeeded, it has inserted one
\* report row, which has the id assigned in this request and is the only row
\* of that id, and n image rows (all still there unless a delete of the
\* report swept them); the k-th image row's name is the k-th submitted name
\* with each placeholder replaced by the decimal digits of that id, and
\* holds no placeholder.
C7_CreateInsertsReportAndImages ==
    creating.pc = "done"
        => /\ creating.id \in DOMAIN written
           /\ creating.id = report_seq - 1
           /\ LastWrite(creating.id) # "delete"
                  => Cardinality({r \in reports : r.id = creating.id}) = 1
           /\ Len(creating.rows) = Len(creating.images)
           /\ creating.k = Len(creating.images)
           /\ ~Swept => Cardinality(Mine) = Len(creating.images)
           /\ \A im \in Mine :
                  \E k \in 1..Len(creating.images) :
                      /\ im.id = creating.rows[k]
                      /\ Substituted(creating.images[k].img_name, im.img_name,
                                     str(creating.id))
                      /\ ~HoldsPlaceholder(im.img_name)
           /\ \A j, k \in 1..Len(creating.rows) :
                  j # k => creating.rows[j] # creating.rows[k]

\* The second request, of id 10, has inserted its two images, one of them
\* named with two placeholders.
C7_Witness ==
    /\ creating.pc = "done"
    /\ creating.id = 10
    /\ Len(creating.images) = 2
    /\ Cardinality(Mine) = 2
    /\ \E im \in Mine :
           im.img_name = <<"1", "0", "_", "1", "0", "X">>
    /\ \E im \in images : im.report_id = 9

\* C8: at every commit of a create request, and after its failure at the
\* k+1-th image, what it committed before is in the store: the report row
\* (unless a delete took it) and exactly the first k image rows in request
\* order (unless a delete of the report swept them), none of the later ones;
\* and no image row of a request is in the store unless its report row was
\* inserted before.
C8_CreateCommitsRowByRow ==
    /\ \A im \in images : im.report_id \in DOMAIN written
    /\ creating.pc \in {"images", "done", "failed"}
           => /\ LastWrite(creating.id) # "delete" => creating.id \in Ids(reports)
              /\ Len(creating.rows) = creating.k
              /\ creating.pc = "failed" => creating.k < Len(creating.images)
              /\ creating.pc = "images" => creating.k < Len(creating.images)
              /\ ~Swept => {im.id : im \in Mine} =
                               {creating.rows[k] : k \in 1..creating.k}
              /\ \A im \in Mine :
                     \E k \in 1..creating.k :
                         /\ im.id = creating.rows[k]
                         /\ Substituted(creating.images[k].img_name, im.img_name,
                                        str(creating.id))
              /\ \A j, k \in 1..creating.k :
                     j < k => creating.rows[j] < creating.rows[k]

\* The second image of two failed: the report and the first image stay.
C8_Witness ==
    /\ creating.pc = "failed"
    /\ Len(creating.images) = 2
    /\ creating.k = 1
    /\ creating.id \in Ids(reports)
    /\ Cardinality(Mine) = 1
    /\ resp.status = 500

-----------------------------------------------------------------------------
(* Properties of upload (UploadSpec).                                      *)

\* C10: on every path through upload the file is closed once, after the try
\* block and before the response, and not before; the handler can always take
\* its next step until it has returned; the response after a failure at any
\* step is the generic failure message, and the success message is returned
\* exactly when the resized image was saved.
C10_UploadClosesFileOnce ==
    /\ upl.pc \in {"filename", "makedirs", "read", "open", "thumbnail", "save",
                   "except", "finally"}
           => upl.closes = 0
    /\ upl.pc \in {"return", "returned"} => upl.closes = 1
    /\ upl.pc \in {"finally", "return", "returned"} => (upl.failed <=> ~upl.saved)
    /\ upl.pc = "returned"
           => /\ req.op = "upload"
              /\ resp.status = 200
              /\ ~upl.saved => resp.message = UploadFailed
              /\ upl.saved
                     => /\ resp.message =
                               UploadSucceeded(upl.file.filename, upl.file_path)
                        /\ \E f \in upl.disk : f.path = upl.file_path
    /\ upl.pc \notin {"idle", "returned"}
           => ENABLED (\/ upload_filename \/ upload_makedirs \/ upload_read
                       \/ upload_open \/ upload_thumbnail \/ upload_save
                       \/ upload_except \/ upload_finally \/ upload_return)

\* A corrupt file: the generic message, the file closed once, nothing saved.
C10_Witness ==
    /\ upl.pc = "returned"
    /\ upl.file.contents.kind = "corrupt"
    /\ resp.message = UploadFailed
    /\ upl.closes = 1
    /\ ~upl.saved

====
